---- MODULE Spec2Model ----
(***************************************************************************)
(* A model of readwritebin.h: the class Bin (a std::fstream opened for     *)
(* reading and writing, a closed flag, an endianness flag and a shared     *)
(* pointer to itself) and the iterator BinPtr<T> with its proxy TypeBin<T>.*)
(*                                                                         *)
(* The std::fstream is modelled by what the code can observe of it: the    *)
(* bytes of the file, the single file position of its std::filebuf (seekg  *)
(* and seekp move the same position, tellg and tellp report it), and the   *)
(* sticky failbit, which nothing in the header ever clears: once it is     *)
(* set, tellg/tellp return -1 and seek, read and write do nothing.  No     *)
(* call reports or uses the position of a stream that has failed or whose  *)
(* file is closed, and the model keeps it at 0 from then on.               *)
(***************************************************************************)
EXTENDS Integers, Sequences, FiniteSets, TLC

VARIABLES
  host_little,      \* Bin::is_default_little_endian() of the machine
  opposite_endian,  \* Bin::opposite_endian
  fs,               \* Bin::fs: the file's bytes, the stream's position and state
  closed,           \* Bin::closed
  alive,            \* the Bin object exists (Bin::sptr has not been released)
  its,              \* the BinPtr objects of the program, by slot
  last,             \* the last call made and how it ended
  loop              \* the program that walks the file from begin to end

vars == <<host_little, opposite_endian, fs, closed, alive, its, last, loop>>

(***************************************************************************)
(* Bounds of the model.                                                    *)
(***************************************************************************)
\* largest explicit byte offset passed to a call
MaxOff == 1

(***************************************************************************)
(* Element types and their values.                                         *)
(***************************************************************************)
Types == {"u8", "u16", "i32", "f32"}

\* sizeof(T)
SizeOf(T) == CASE T = "u8"  -> 1
               [] T = "u16" -> 2
               [] T = "i32" -> 4
               [] T = "f32" -> 4
               [] T = "char" -> 1

\* Bin::bytes<T>(n_instances)
bytes(T, n_instances) == SizeOf(T) * n_instances

\* std::is_floating_point<T>::value
is_floating_point(T) == T = "f32"

\* The 4-byte integer with the bit pattern AA BB CC DD (most significant
\* byte first), as the two's complement int with that pattern.
xAABBCCDD == (((170 - 256) * 256 + 187) * 256 + 204) * 256 + 221

\* The float 1.0f, named by its IEEE-754 bit pattern 3F 80 00 00 (a float
\* is named by the int that has its bit pattern).
OneFloat == (63 * 256 + 128) * 65536

\* The values the model passes to write<T>.
Values(T) == CASE T = "u8"  -> {7}
               [] T = "u16" -> {258}
               [] T = "i32" -> {xAABBCCDD}
               [] T = "f32" -> {OneFloat}

RECURSIVE Pow256(_)
Pow256(i) == IF i = 0 THEN 1 ELSE 256 * Pow256(i - 1)

Reverse(s) == [i \in 1..Len(s) |-> s[Len(s) + 1 - i]]

\* reinterpret_cast<char*>(&val): the object representation of val, in the
\* byte order of the machine.  \div rounds down, so a negative int yields
\* its two's complement bytes.
ObjectBytes(T, val) ==
  LET le == [i \in 1..SizeOf(T) |-> (val \div Pow256(i - 1)) % 256]
  IN  IF host_little THEN le ELSE Reverse(le)

\* A byte of storage that was never written (a local char buf[] or the
\* chars of new char[] before fs.read fills them).  What it holds is not
\* determined by the program: it is any of the 256 values of a char, and
\* another one in another build or run.  The model keeps such a byte as this
\* mark, which is no value of a char, and commits to none of the 256.
Uninit == 0 - 1

\* What is made of bytes of which one or more are Uninit: any value of the
\* type, none in particular.
Indeterminate == "indeterminate"

\* *reinterpret_cast<T*>(buf): the value whose object representation is buf;
\* a 4-byte pattern is named by the two's complement int it spells.
ObjectValue(T, buf) ==
  IF \E i \in 1..Len(buf) : buf[i] = Uninit THEN Indeterminate
  ELSE LET le  == IF host_little THEN buf ELSE Reverse(buf)
           n   == SizeOf(T)
           top == IF n = 4 /\ le[n] >= 128 THEN le[n] - 256 ELSE le[n]
           RECURSIVE low(_)
           low(i) == IF i = 0 THEN 0 ELSE le[i] * Pow256(i - 1) + low(i - 1)
       IN  top * Pow256(n - 1) + low(n - 1)

\* std::string(buf) for the buffer of get_string, which ends with '\0': the
\* chars before the first '\0'
CString(buf) ==
  LET nul == {i \in 1..Len(buf) : buf[i] = 0}
      end == IF nul = {} THEN Len(buf)
             ELSE (CHOOSE i \in nul : \A j \in nul : i <= j) - 1
  IN  IF \E i \in 1..end : buf[i] = Uninit THEN Indeterminate
      ELSE SubSeq(buf, 1, end)

\* write<T>(val) without its std::reverse
write_buf_native(T, val) == ObjectBytes(T, val)

\* write(T val): the bytes handed to fs.write
write_buf(T, val) ==
  LET buf == ObjectBytes(T, val)
  IN  IF opposite_endian THEN Reverse(buf) ELSE buf

\* get_value<T>() without its std::reverse
read_buf_native(T, buf) == ObjectValue(T, buf)

\* get_value<T>(): the value made of the bytes fs.read delivered
read_buf(T, buf) ==
  ObjectValue(T, IF opposite_endian /\ ~is_floating_point(T)
                 THEN Reverse(buf) ELSE buf)

(***************************************************************************)
(* The std::fstream Bin::fs.  s.data is the file, s.pos the position of    *)
(* the stream's one std::filebuf, s.failed its failbit or badbit, s.open   *)
(* whether the file is open.                                               *)
(***************************************************************************)
\* fs.tellp() and fs.tellg()
tell(s) == IF s.failed \/ ~s.open THEN -1 ELSE s.pos

\* fs.seekp(point) and fs.seekg(point)
seek(s, point) ==
  IF s.failed THEN s
  ELSE IF ~s.open \/ point < 0 THEN [s EXCEPT !.failed = TRUE, !.pos = 0]
  ELSE [s EXCEPT !.pos = point]

\* fs.seekp(off, std::ios::cur) and fs.seekg(off, std::ios::cur)
seek_cur(s, off) ==
  IF s.failed THEN s
  ELSE IF ~s.open \/ s.pos + off < 0 THEN [s EXCEPT !.failed = TRUE, !.pos = 0]
  ELSE [s EXCEPT !.pos = s.pos + off]

\* fs.seekp(0, std::ios::end)
seek_end(s) ==
  IF s.failed THEN s
  ELSE IF ~s.open THEN [s EXCEPT !.failed = TRUE, !.pos = 0]
  ELSE [s EXCEPT !.pos = Len(s.data)]

\* fs.write(buf, n): the bytes go to the position, a gap between the end of
\* the file and the position reads as zeros; a write of no bytes leaves the
\* file as it is
fs_write(s, buf) ==
  IF s.failed \/ (~s.open /\ buf # <<>>) THEN [s EXCEPT !.failed = TRUE, !.pos = 0]
  ELSE IF buf = <<>> THEN s
  ELSE LET end == s.pos + Len(buf)
           len == IF end > Len(s.data) THEN end ELSE Len(s.data)
       IN  [s EXCEPT !.pos = end,
                     !.data = [i \in 1..len |->
                                 IF i > s.pos /\ i <= end THEN buf[i - s.pos]
                                 ELSE IF i <= Len(s.data) THEN s.data[i]
                                 ELSE 0]]

\* fs.read(buf, n) into a buffer that held the bytes old: the stream after
\* it, and the buffer.  A read that finds fewer than n bytes sets eofbit and
\* failbit and leaves the rest of the buffer as it was.
fs_read(s, n, old) ==
  IF s.failed \/ (~s.open /\ n > 0)
  THEN [fs |-> [s EXCEPT !.failed = TRUE, !.pos = 0], buf |-> old]
  ELSE LET avail == IF Len(s.data) > s.pos THEN Len(s.data) - s.pos ELSE 0
           got   == IF avail < n THEN avail ELSE n
       IN  [fs  |-> [s EXCEPT !.pos = IF got < n THEN 0 ELSE s.pos + got,
                           !.failed = got < n],
            buf |-> [i \in 1..n |-> IF i <= got THEN s.data[s.pos + i]
                                    ELSE old[i]]]

(***************************************************************************)
(* The member functions of Bin, as functions of the stream they are given: *)
(* each yields the stream it leaves, what it returns (a sequence, empty    *)
(* for void) and the exception it ends with ("none" when it returns).      *)
(*   "closed"    std::domain_error, "... closed file!"                     *)
(*   "jump_eof"  std::domain_error, "Can't jump and read past EOF!"        *)
(*   "read_eof"  std::runtime_error, "Trying to read past EOF!"            *)
(*   "string_eof" std::domain_error, "Can't read string past EOF!"         *)
(***************************************************************************)
Ok(s, ret)    == [fs |-> s, ret |-> ret, exc |-> "none"]
Throw(s, exc) == [fs |-> s, ret |-> <<>>, exc |-> exc]

\* static_cast<decltype(sizeof(T))>(d) < n for a small n >= 0: a negative d
\* converts to a value of at least 2^63
UnsignedLess(d, n) == d >= 0 /\ d < n

\* Bin::size()
size(s) ==
  IF closed THEN Throw(s, "closed")
  ELSE LET p  == tell(s)
           s1 == seek_end(s)
           sz == tell(s1)
       IN  Ok(seek(s1, p), <<sz>>)

\* Bin::wpos()
wpos(s) == Ok(s, <<tell(s)>>)

\* Bin::rpos()
rpos(s) == Ok(s, <<tell(s)>>)

\* rjump_to(point) without its test of size()
rjump_to_unchecked(s, point) ==
  IF closed THEN Throw(s, "closed")
  ELSE Ok(seek(s, point), <<>>)

\* Bin::rjump_to(point)
rjump_to(s, point) ==
  IF closed THEN Throw(s, "closed")
  ELSE LET sz == size(s)
       IN  IF point > sz.ret[1] THEN Throw(sz.fs, "jump_eof")
           ELSE Ok(seek(sz.fs, point), <<>>)

\* Bin::wjump_to(point)
wjump_to(s, point) ==
  IF closed THEN Throw(s, "closed")
  ELSE Ok(seek(s, point), <<>>)

\* Bin::wmove_by<T>(n_steps)
wmove_by(s, T, n_steps) == Ok(seek_cur(s, bytes(T, n_steps)), <<>>)

\* Bin::rmove_by<T>(n_steps)
rmove_by(s, T, n_steps) == Ok(seek_cur(s, bytes(T, n_steps)), <<>>)

\* Bin::write<T>(val)
write(s, T, val) ==
  IF closed THEN Throw(s, "closed")
  ELSE Ok(fs_write(s, write_buf(T, val)), <<>>)

\* Bin::write<T>(val, p)
write_at(s, T, val, p) ==
  LET j == wjump_to(s, p)
  IN  IF j.exc # "none" THEN j ELSE write(j.fs, T, val)

\* Bin::write_many<T>(vals): write(*it) for every element, in order
RECURSIVE write_many(_, _, _)
write_many(s, T, vals) ==
  IF vals = <<>> THEN Ok(s, <<>>)
  ELSE LET w == write(s, T, Head(vals))
       IN  IF w.exc # "none" THEN w ELSE write_many(w.fs, T, Tail(vals))

\* Bin::write_many<T>(vals, p)
write_many_at(s, T, vals, p) ==
  LET j == wjump_to(s, p)
  IN  IF j.exc # "none" THEN j ELSE write_many(j.fs, T, vals)

\* a test for the end being reached instead of n bytes being left
PastEOF_at_end(sz, rp, n) == sz - rp <= 0

\* no test before fs.read
PastEOF_never(sz, rp, n) == FALSE

\* the test of get_value<T>() that throws "Trying to read past EOF!"
PastEOF(sz, rp, n) == UnsignedLess(sz - rp, n)

\* Bin::get_value<T>(); junk is what the local buffer buf holds before
\* fs.read fills it
get_value(s, T, junk) ==
  IF closed THEN Throw(s, "closed")
  ELSE LET sz == size(s)
           rp == rpos(sz.fs)
       IN  IF PastEOF(sz.ret[1], rp.ret[1], SizeOf(T)) THEN Throw(rp.fs, "read_eof")
           ELSE LET r == fs_read(rp.fs, SizeOf(T), junk)
                IN  Ok(r.fs, <<read_buf(T, r.buf)>>)

\* Bin::get_value<T>(p)
get_value_at(s, T, p, junk) ==
  LET j == rjump_to(s, p)
  IN  IF j.exc # "none" THEN j ELSE get_value(j.fs, T, junk)

\* get_values<T>(n) with one std::reverse over the whole buffer
get_values_one_reverse(s, T, n, junk) ==
  IF closed THEN Throw(s, "closed")
  ELSE LET sz == size(s)
           rp == rpos(sz.fs)
       IN  IF PastEOF(sz.ret[1], rp.ret[1], bytes(T, n)) THEN Throw(rp.fs, "read_eof")
           ELSE LET r   == fs_read(rp.fs, bytes(T, n), junk)
                    buf == IF opposite_endian /\ ~is_floating_point(T)
                           THEN Reverse(r.buf) ELSE r.buf
                IN  Ok(r.fs, [i \in 1..n |->
                                ObjectValue(T, SubSeq(buf, bytes(T, i - 1) + 1,
                                                      bytes(T, i)))])

\* Bin::get_values<T>(n); junk is what the new char[] holds before fs.read
get_values(s, T, n, junk) ==
  IF closed THEN Throw(s, "closed")
  ELSE LET sz == size(s)
           rp == rpos(sz.fs)
       IN  IF PastEOF(sz.ret[1], rp.ret[1], bytes(T, n)) THEN Throw(rp.fs, "read_eof")
           ELSE LET r == fs_read(rp.fs, bytes(T, n), junk)
                IN  Ok(r.fs, [i \in 1..n |->
                                read_buf(T, SubSeq(r.buf, bytes(T, i - 1) + 1,
                                                   bytes(T, i)))])

\* Bin::get_values<T>(n, p)
get_values_at(s, T, n, p, junk) ==
  LET j == rjump_to(s, p)
  IN  IF j.exc # "none" THEN j ELSE get_values(j.fs, T, n, junk)

\* Bin::write_string(s): the string is the sequence of its chars
write_string(s, str) ==
  IF closed THEN Throw(s, "closed")
  ELSE Ok(fs_write(s, str), <<>>)

\* Bin::write_string(s, p)
write_string_at(s, str, p) ==
  LET j == wjump_to(s, p)
  IN  IF j.exc # "none" THEN j ELSE write_string(j.fs, str)

\* Bin::get_string(len); junk is what the first len chars of new char[len + 1]
\* hold before fs.read, and buf[len] = '\0' ends the buffer
get_string(s, len, junk) ==
  IF closed THEN Throw(s, "closed")
  ELSE LET sz == size(s)
       IN  IF UnsignedLess(sz.ret[1] - tell(sz.fs), len)
           THEN Throw(sz.fs, "string_eof")
           ELSE LET r == fs_read(sz.fs, len, junk)
                IN  Ok(r.fs, <<CString(Append(r.buf, 0))>>)

\* Bin::get_string(len, p)
get_string_at(s, len, p, junk) ==
  LET j == rjump_to(s, p)
  IN  IF j.exc # "none" THEN j ELSE get_string(j.fs, len, junk)

\* Bin::flush()
flush(s) == Ok(s, <<>>)

\* fs.close() in Bin::close(): closing a stream that is not open sets failbit
fs_close(s) == IF s.open THEN [s EXCEPT !.open = FALSE, !.pos = 0]
               ELSE [s EXCEPT !.failed = TRUE, !.pos = 0]

(***************************************************************************)
(* BinPtr<T>: it.T the element type, it.curr the member curr, it.tb the    *)
(* member curr of its TypeBin<T> tb.  Its weak_ptr wptr locks iff the Bin  *)
(* object exists.  The functions yield the stream and the iterator they    *)
(* leave, and the exception:                                               *)
(*   "unbound"       std::runtime_error, "Unbound Bin"                     *)
(*   "was_closed"    std::runtime_error, "The file was closed!"            *)
(*   "out_of_range"  std::out_of_range                                     *)
(***************************************************************************)
NoIt == [T |-> "-", curr |-> 0, tb |-> 0]

\* BinPtr(a, sz) that ignores sz
BinPtr_at_begin(T, sz) == [T |-> T, curr |-> 0, tb |-> 0]

\* BinPtr<T>::BinPtr(a, sz)
BinPtr(T, sz) == [T |-> T, curr |-> sz, tb |-> sz]

\* check(i, msg) without its test of wptr.lock()
check_no_lock(s, i) ==
  IF closed THEN Throw(s, "was_closed")
  ELSE LET sz == size(s)
       IN  IF i > sz.ret[1] THEN Throw(sz.fs, "out_of_range")
           ELSE Ok(sz.fs, <<>>)

\* BinPtr<T>::check(i, msg)
check(s, i) ==
  IF ~alive THEN Throw(s, "unbound")
  ELSE IF closed THEN Throw(s, "was_closed")
  ELSE LET sz == size(s)
       IN  IF i > sz.ret[1] THEN Throw(sz.fs, "out_of_range")
           ELSE Ok(sz.fs, <<>>)

ItOk(s, it)         == [fs |-> s, it |-> it, exc |-> "none"]
ItThrow(s, it, exc) == [fs |-> s, it |-> it, exc |-> exc]

\* operator*() without its wjump_to(curr)
deref_no_jump(s, it) ==
  LET c == check(s, 0)
  IN  IF c.exc # "none" THEN ItThrow(c.fs, it, c.exc)
      ELSE ItOk(c.fs, [it EXCEPT !.tb = it.curr])

\* BinPtr<T>::operator*()
deref(s, it) ==
  LET c == check(s, 0)
  IN  IF c.exc # "none" THEN ItThrow(c.fs, it, c.exc)
      ELSE LET j == wjump_to(c.fs, it.curr)
           IN  IF j.exc # "none" THEN ItThrow(j.fs, it, j.exc)
               ELSE ItOk(j.fs, [it EXCEPT !.tb = it.curr])

\* BinPtr<T>::operator++()
increment(s, it) ==
  LET c == check(s, 0)
  IN  IF c.exc # "none" THEN ItThrow(c.fs, it, c.exc)
      ELSE ItOk(c.fs, [it EXCEPT !.curr = it.curr + SizeOf(it.T)])

\* operator--() without its test of curr
decrement_unchecked(s, it) ==
  ItOk(s, [it EXCEPT !.curr = it.curr - SizeOf(it.T)])

\* BinPtr<T>::operator--()
decrement(s, it) ==
  IF it.curr < SizeOf(it.T) THEN ItThrow(s, it, "out_of_range")
  ELSE ItOk(s, [it EXCEPT !.curr = it.curr - SizeOf(it.T)])

\* BinPtr<T>::operator+(n): the stream it leaves and the iterator it returns
plus(s, it, n) ==
  LET c == check(s, 0)
  IN  IF c.exc # "none" THEN ItThrow(c.fs, NoIt, c.exc)
      ELSE ItOk(c.fs, BinPtr(it.T, it.curr + bytes(it.T, n)))

\* TypeBin<T>::operator T() of the tb of an iterator
tb_read(s, it, junk) == get_value_at(s, it.T, it.tb, junk)

\* TypeBin<T>::operator=(a) of the tb of an iterator
tb_assign(s, it, a) == write_at(s, it.T, a, it.tb)

\* swap(TypeBin<T> &a, TypeBin<T> &b) of the tb of two iterators; junk1 and
\* junk2 are what the buffers of the two reads hold before fs.read
swap(s, a, b, junk1, junk2) ==
  LET tmp == tb_read(s, a, junk1)
  IN  IF tmp.exc # "none" THEN tmp
      ELSE LET g == tb_read(tmp.fs, b, junk2)
           IN  IF g.exc # "none" THEN g
               ELSE LET w == tb_assign(g.fs, a, g.ret[1])
                    IN  IF w.exc # "none" THEN w
                        ELSE tb_assign(w.fs, b, tmp.ret[1])

\* BinPtr<T>::operator==(wrb2); every BinPtr of the program is made from its
\* one Bin, so b1->fs and b2->fs are the same object whenever both lock
equals(s, it1, it2) ==
  IF ~alive THEN Throw(s, "invalid")
  ELSE Ok(s, <<it1.curr = it2.curr>>)

\* BinPtr<T>::operator!=(wrb2)
not_equals(s, it1, it2) ==
  LET e == equals(s, it1, it2)
  IN  IF e.exc # "none" THEN e ELSE Ok(e.fs, <<~e.ret[1]>>)

\* A 64-bit pattern is four 16-bit limbs, the most significant first.
Limb == 256 * 256

\* the 64-bit two's complement pattern of the integer x, which is what
\* converting a long to unsigned long keeps
Int64(x) ==
  LET ext == IF x < 0 THEN Limb - 1 ELSE 0
  IN  <<ext, ext, (x \div Limb) % Limb, x % Limb>>

\* u / n in unsigned long, for a 64-bit pattern u and a small n
UnsignedDiv(u, n) ==
  LET rem[i \in 0..4] == IF i = 0 THEN 0 ELSE (rem[i - 1] * Limb + u[i]) % n
  IN  [i \in 1..4 |-> (rem[i - 1] * Limb + u[i]) \div n]

\* operator-(a, b): the long a.curr - b.curr is converted to the type of
\* sizeof(T), divided in it, and the quotient converted to ptrdiff_t
minus(a, b) == UnsignedDiv(Int64(a.curr - b.curr), SizeOf(a.T))

(***************************************************************************)
(* The program: one Bin on a file, the calls made on it, and the BinPtr     *)
(* objects made from it.  last records the last call.                      *)
(***************************************************************************)
Iters == {1}

\* the slots for BinPtr objects: it and e of a loop, or the two operands of
\* a comparison, a difference or a swap
Slots == {1, 2}

Offsets == -1..MaxOff

Record(op, T, off, val, ret, exc, it) ==
  [op |-> op, T |-> T, off |-> off, val |-> val, ret |-> ret, exc |-> exc,
   it |-> it]

\* the model follows a file of at most MaxLen bytes and a position of at
\* most one byte more
MaxLen == MaxOff + 4

InBounds(s) == Len(s.data) <= MaxLen /\ s.pos <= MaxLen + 1

\* a call of a member function of Bin that ended as r
Call(op, T, off, val, r) ==
  /\ alive
  /\ fs' = r.fs
  /\ last' = Record(op, T, off, val, r.ret, r.exc, 0)
  /\ UNCHANGED <<host_little, opposite_endian, closed, alive, its, loop>>

\* a call of a member function of the BinPtr in slot i that ended as r
ItCall(op, i, r) ==
  /\ its[i] # NoIt
  /\ r.it.curr <= MaxLen + 1
  /\ fs' = r.fs
  /\ its' = [its EXCEPT ![i] = r.it]
  /\ last' = Record(op, its[i].T, its[i].curr, <<>>, <<>>, r.exc, i)
  /\ UNCHANGED <<host_little, opposite_endian, closed, alive, loop>>

\* what a buffer of n bytes holds before anything is written to it
Junk(n) == {[i \in 1..n |-> Uninit]}

\* fs.open(filename, in | out | ate) on a file of the bytes data, which are
\* none after trunc or for a file that open creates: std::ios::ate leaves the
\* stream at the end of the file
OpenStream(data) ==
  [data |-> data, pos |-> Len(data), failed |-> FALSE, open |-> TRUE]

\* fs.open on a path that cannot be opened: failbit is set and no file is
\* open
NoStream == [data |-> <<>>, pos |-> 0, failed |-> TRUE, open |-> FALSE]

\* what a file that exists under fname may hold when the constructor runs
Existing == {<<1, 2, 3>>}

\* Bin::Bin(fname, truncate, use_little_endian) for a path that can be opened
\* or not, under which a file of the bytes found exists or not
Bin(openable, already_exists, found, truncate) ==
  LET s == IF ~openable THEN NoStream
           ELSE IF truncate \/ ~already_exists THEN OpenStream(<<>>)
           ELSE OpenStream(found)
  IN  IF s.failed \/ ~s.open THEN Throw(s, "open_failed")
      ELSE rjump_to(s, 0)

\* the constructor's argument use_little_endian, from the two flags
use_little_endian == host_little # opposite_endian

\* the walk before its first statement: the element type is that of the
\* first value put, vec are the values put and out the values collected
NoLoop == [pc |-> "put", T |-> "-", vec |-> <<>>, out |-> <<>>]

\* Bin b(fname, truncate, use_little_endian): a constructor that throws
\* leaves no Bin
Init ==
  /\ host_little \in BOOLEAN
  /\ \E use \in BOOLEAN : opposite_endian = (use # host_little)
  /\ closed = FALSE
  /\ \E openable \in BOOLEAN : \E already_exists \in BOOLEAN :
       \E found \in Existing : \E truncate \in BOOLEAN :
         LET r == Bin(openable, already_exists, found, truncate)
         IN  /\ fs = r.fs
             /\ alive = (r.exc = "none")
             /\ last = Record("Bin", "-", 0, <<>>, <<>>, r.exc, 0)
  /\ its = [i \in Slots |-> NoIt]
  /\ loop = NoLoop

\* Bin b(fname, true, use_little_endian) that has returned: the file is empty
InitTruncated == Init /\ alive /\ fs.data = <<>>

Size == Call("size", "-", 0, <<>>, size(fs))

WPos == Call("wpos", "-", 0, <<>>, wpos(fs))

RPos == Call("rpos", "-", 0, <<>>, rpos(fs))

RJumpTo(p) == Call("rjump_to", "-", p, <<>>, rjump_to(fs, p))

WJumpTo(p) == Call("wjump_to", "-", p, <<>>, wjump_to(fs, p))

WMoveBy(T, n) ==
  LET r == wmove_by(fs, T, n)
  IN  InBounds(r.fs) /\ Call("wmove_by", T, n, <<>>, r)

RMoveBy(T, n) ==
  LET r == rmove_by(fs, T, n)
  IN  InBounds(r.fs) /\ Call("rmove_by", T, n, <<>>, r)

Write(T, val) ==
  LET r == write(fs, T, val)
  IN  InBounds(r.fs) /\ Call("write", T, 0, <<val>>, r)

WriteAt(T, val, p) ==
  LET r == write_at(fs, T, val, p)
  IN  InBounds(r.fs) /\ Call("write_at", T, p, <<val>>, r)

WriteMany(T, vals) ==
  LET r == write_many(fs, T, vals)
  IN  InBounds(r.fs) /\ Call("write_many", T, 0, vals, r)

WriteManyAt(T, vals, p) ==
  LET r == write_many_at(fs, T, vals, p)
  IN  InBounds(r.fs) /\ Call("write_many_at", T, p, vals, r)

GetValue(T, junk) == Call("get_value", T, 0, <<>>, get_value(fs, T, junk))

GetValueAt(T, p, junk) ==
  Call("get_value_at", T, p, <<>>, get_value_at(fs, T, p, junk))

GetValues(T, n, junk) ==
  Call("get_values", T, 0, <<n>>, get_values(fs, T, n, junk))

GetValuesAt(T, n, p, junk) ==
  Call("get_values_at", T, p, <<n>>, get_values_at(fs, T, n, p, junk))

WriteString(str) ==
  LET r == write_string(fs, str)
  IN  InBounds(r.fs) /\ Call("write_string", "char", 0, <<str>>, r)

WriteStringAt(str, p) ==
  LET r == write_string_at(fs, str, p)
  IN  InBounds(r.fs) /\ Call("write_string_at", "char", p, <<str>>, r)

GetString(len, junk) ==
  Call("get_string", "char", 0, <<len>>, get_string(fs, len, junk))

GetStringAt(len, p, junk) ==
  Call("get_string_at", "char", p, <<len>>, get_string_at(fs, len, p, junk))

Flush == Call("flush", "-", 0, <<>>, flush(fs))

\* Bin::close(); last.val keeps the value of closed the call found
Close ==
  /\ alive
  /\ fs' = fs_close(fs)
  /\ closed' = TRUE
  /\ last' = Record("close", "-", 0, <<closed>>, <<>>, "none", 0)
  /\ UNCHANGED <<host_little, opposite_endian, alive, its, loop>>

\* Bin::~Bin(): the stream is closed and sptr released, so every weak_ptr
\* to the Bin has expired
Destroy ==
  /\ alive
  /\ alive' = FALSE
  /\ fs' = [fs EXCEPT !.open = FALSE, !.pos = 0]
  /\ last' = Record("~Bin", "-", 0, <<>>, <<>>, "none", 0)
  /\ UNCHANGED <<host_little, opposite_endian, closed, its, loop>>

\* Bin::begin<T>() into slot i
Begin(i, T) ==
  /\ alive
  /\ its' = [its EXCEPT ![i] = BinPtr(T, 0)]
  /\ last' = Record("begin", T, 0, <<>>, <<>>, "none", i)
  /\ UNCHANGED <<host_little, opposite_endian, fs, closed, alive, loop>>

\* Bin::end<T>() into slot i
End(i, T) ==
  /\ alive
  /\ LET sz == size(fs)
     IN  /\ fs' = sz.fs
         /\ its' = IF sz.exc = "none"
                   THEN [its EXCEPT ![i] = BinPtr(T, sz.ret[1])] ELSE its
         /\ last' = Record("end", T, 0, <<>>, sz.ret, sz.exc, i)
  /\ UNCHANGED <<host_little, opposite_endian, closed, alive, loop>>

\* *its[i]
Deref(i) == ItCall("deref", i, deref(fs, its[i]))

\* ++its[i]
Increment(i) == ItCall("increment", i, increment(fs, its[i]))

\* --its[i]
Decrement(i) == ItCall("decrement", i, decrement(fs, its[i]))

\* its[i] == its[j]
Equal(i, j) ==
  /\ its[i] # NoIt /\ its[j] # NoIt /\ its[i].T = its[j].T
  /\ LET r == equals(fs, its[i], its[j])
     IN  /\ fs' = r.fs
         /\ last' = Record("equals", its[i].T, its[i].curr, <<its[j].curr>>,
                           r.ret, r.exc, i)
  /\ UNCHANGED <<host_little, opposite_endian, closed, alive, its, loop>>

\* its[i] - its[j]
Minus(i, j) ==
  /\ its[i] # NoIt /\ its[j] # NoIt /\ its[i].T = its[j].T
  /\ last' = Record("minus", its[i].T, its[i].curr, <<its[j].curr>>,
                    <<minus(its[i], its[j])>>, "none", i)
  /\ UNCHANGED <<host_little, opposite_endian, fs, closed, alive, its, loop>>

\* a statement of the walk that ended as r, left the iterators as nits and
\* the walk as nloop
LoopCall(op, T, off, val, r, nits, nloop) ==
  /\ alive
  /\ fs' = r.fs
  /\ its' = nits
  /\ loop' = nloop
  /\ last' = Record(op, T, off, val, r.ret, r.exc, 0)
  /\ UNCHANGED <<host_little, opposite_endian, closed, alive>>

\* where the walk goes after a statement that ended with exc
Goto(exc, pc) == IF exc = "none" THEN pc ELSE "threw"

\* b.write<T>(v, bytes<T>(i)) for the next element i
LoopPut(T, v) ==
  /\ loop.pc = "put"
  /\ loop.T \in {"-", T}
  /\ LET p == bytes(T, Len(loop.vec))
         r == write_at(fs, T, v, p)
     IN  /\ InBounds(r.fs)
         /\ LoopCall("write_at", T, p, <<v>>, r, its,
                     [loop EXCEPT !.T = T, !.vec = Append(@, v),
                                  !.pc = Goto(r.exc, "put")])

\* auto e = b.end<T>()
LoopEnd(T) ==
  /\ loop.pc = "put"
  /\ loop.T \in {"-", T}
  /\ LET sz == size(fs)
     IN  LoopCall("end", T, 0, <<>>, sz,
                  IF sz.exc = "none"
                  THEN [its EXCEPT ![2] = BinPtr(T, sz.ret[1])] ELSE its,
                  [loop EXCEPT !.T = T, !.pc = Goto(sz.exc, "begin")])

\* auto it = b.begin<T>()
LoopBegin ==
  /\ loop.pc = "begin"
  /\ LoopCall("begin", loop.T, 0, <<>>, Ok(fs, <<>>),
              [its EXCEPT ![1] = BinPtr(loop.T, 0)],
              [loop EXCEPT !.pc = "test"])

\* it != e
LoopTest ==
  /\ loop.pc = "test"
  /\ LET r == not_equals(fs, its[1], its[2])
     IN  LoopCall("not_equals", loop.T, its[1].curr, <<its[2].curr>>, r, its,
                  [loop EXCEPT !.pc = IF r.exc # "none" THEN "threw"
                                      ELSE IF r.ret[1] THEN "read"
                                      ELSE "done"])

\* out.push_back(*it): operator*, then the conversion of the TypeBin to T
LoopRead ==
  /\ loop.pc = "read"
  /\ \E junk \in Junk(SizeOf(loop.T)) :
       LET d == deref(fs, its[1])
           g == IF d.exc # "none" THEN Throw(d.fs, d.exc)
                ELSE tb_read(d.fs, d.it, junk)
       IN  LoopCall("read", loop.T, its[1].curr, <<>>, g,
                    [its EXCEPT ![1] = d.it],
                    [loop EXCEPT !.out = @ \o g.ret,
                                 !.pc = Goto(g.exc, "step")])

\* ++it
LoopStep ==
  /\ loop.pc = "step"
  /\ LET r == increment(fs, its[1])
     IN  LoopCall("increment", loop.T, its[1].curr, <<>>,
                  [fs |-> r.fs, ret |-> <<>>, exc |-> r.exc],
                  [its EXCEPT ![1] = r.it],
                  [loop EXCEPT !.pc = Goto(r.exc, "test")])

\* the integral element types
IntegralTypes == {"u16", "i32"}

\* the element types of the codec
ElemTypes == {"u16", "i32", "f32"}

\* the element types a program reads that writes values of one type
ReadTypes == {"u16", "i32"}

StoreTypes == {"u16"}

\* the runs of values the program writes in one call, and their length
Runs(T) == {<<v, w>> : v \in Values(T), w \in Values(T)}

RunLen == {2}

\* the strings the program writes and the lengths it reads
Strings == {<<>>, <<2, 1>>}

StringLen == {0, 2}

\* the calls on a Bin of a program that writes values of one type
StoreCall ==
  \/ Size
  \/ WPos
  \/ RPos
  \/ \E p \in Offsets : RJumpTo(p)
  \/ \E p \in Offsets : WJumpTo(p)
  \/ \E n \in {-1, 1} : WMoveBy("u8", n)
  \/ \E n \in {-1, 1} : RMoveBy("u8", n)
  \/ \E T \in StoreTypes : \E v \in Values(T) : Write(T, v)
  \/ \E T \in StoreTypes : \E v \in Values(T) : \E p \in Offsets : WriteAt(T, v, p)
  \/ \E T \in StoreTypes : \E vals \in Runs(T) : WriteMany(T, vals)
  \/ \E T \in StoreTypes : \E vals \in Runs(T) : \E p \in Offsets :
       WriteManyAt(T, vals, p)
  \/ \E T \in ReadTypes : \E g \in Junk(SizeOf(T)) : GetValue(T, g)
  \/ \E T \in ReadTypes : \E p \in Offsets : \E g \in Junk(SizeOf(T)) :
       GetValueAt(T, p, g)
  \/ \E T \in StoreTypes : \E n \in RunLen : \E g \in Junk(bytes(T, n)) :
       GetValues(T, n, g)
  \/ \E T \in StoreTypes : \E n \in RunLen : \E p \in Offsets :
       \E g \in Junk(bytes(T, n)) : GetValuesAt(T, n, p, g)
  \/ \E str \in Strings : WriteString(str)
  \/ \E str \in Strings : \E p \in Offsets : WriteStringAt(str, p)
  \/ \E len \in StringLen : \E g \in Junk(len) : GetString(len, g)
  \/ \E len \in StringLen : \E p \in Offsets : \E g \in Junk(len) :
       GetStringAt(len, p, g)
  \/ Flush
  \/ Close

\* the calls of a program that puts and gets values of every element type
CodecCall ==
  \/ \E p \in Offsets : WJumpTo(p)
  \/ \E T \in ElemTypes : \E v \in Values(T) : \E p \in Offsets : WriteAt(T, v, p)
  \/ \E T \in ElemTypes : \E g \in Junk(SizeOf(T)) : GetValue(T, g)
  \/ \E T \in ElemTypes : \E p \in Offsets : \E g \in Junk(SizeOf(T)) :
       GetValueAt(T, p, g)

\* the calls of a program that walks the file with iterators
IterCall ==
  \/ \E T \in StoreTypes : \E v \in Values(T) : \E p \in Offsets : WriteAt(T, v, p)
  \/ Close
  \/ Destroy
  \/ \E i \in Iters : \E T \in StoreTypes : Begin(i, T)
  \/ \E i \in Iters : \E T \in StoreTypes : End(i, T)
  \/ \E i \in Iters : Deref(i)
  \/ \E i \in Iters : Increment(i)
  \/ \E i \in Iters : Decrement(i)

\* the calls of a program that seeks to read, moves the read position, gets
\* and puts
CursorCall ==
  \/ \E p \in Offsets : RJumpTo(p)
  \/ \E n \in {-1, 1} : RMoveBy("u8", n)
  \/ \E T \in StoreTypes : \E v \in Values(T) : Write(T, v)
  \/ \E T \in StoreTypes : \E v \in Values(T) : \E p \in Offsets : WriteAt(T, v, p)
  \/ \E T \in ReadTypes : \E g \in Junk(SizeOf(T)) : GetValue(T, g)
  \/ \E T \in ReadTypes : \E p \in Offsets : \E g \in Junk(SizeOf(T)) :
       GetValueAt(T, p, g)

\* the element types of the iterators of a program that compares them
PairTypes == {"u16"}

\* the calls of a program that makes two iterators, steps them and takes
\* their difference while it puts bytes
PairCall ==
  \/ \E p \in Offsets : WriteAt("u8", 7, p)
  \/ \E i \in Slots : \E T \in PairTypes : Begin(i, T)
  \/ \E i \in Slots : \E T \in PairTypes : End(i, T)
  \/ \E i \in Slots : Increment(i)
  \/ \E i \in Slots : Decrement(i)
  \/ \E i \in Slots : \E j \in Slots : Minus(i, j)

\* the calls of a program that compares two iterators while the Bin is put
\* to, closed and destroyed
EqualCall ==
  \/ \E T \in StoreTypes : \E v \in Values(T) : \E p \in Offsets : WriteAt(T, v, p)
  \/ Close
  \/ Destroy
  \/ \E i \in Slots : \E T \in PairTypes : Begin(i, T)
  \/ \E i \in Slots : \E T \in PairTypes : End(i, T)
  \/ \E i \in Slots : Increment(i)
  \/ \E i \in Slots : \E j \in Slots : Equal(i, j)

\* the float 2.0f, by its bit pattern 40 00 00 00
TwoFloat == 64 * 256 * 256 * 256

\* the two values a program puts before it swaps them
SwapRuns(T) == CASE T = "u16" -> {<<10, 258>>}
                 [] T = "f32" -> {<<OneFloat, TwoFloat>>}

\* b.write_many<T>(vals, 0)
Fill(T, vals) ==
  Call("write_many_at", T, 0, vals, write_many_at(fs, T, vals, 0))

\* swap(a, b) for the TypeBin a of its[i] and the TypeBin b of its[j]
Swap(i, j) ==
  /\ alive
  /\ its[i] # NoIt /\ its[j] # NoIt /\ its[i].T = its[j].T
  /\ \E junk1 \in Junk(SizeOf(its[i].T)) : \E junk2 \in Junk(SizeOf(its[i].T)) :
       LET r == swap(fs, its[i], its[j], junk1, junk2)
       IN  /\ fs' = r.fs
           /\ last' = Record("swap", its[i].T, its[i].tb, <<its[j].tb>>,
                             <<>>, r.exc, i)
  /\ UNCHANGED <<host_little, opposite_endian, closed, alive, its, loop>>

\* auto its[j] = its[i] + n
Plus(i, j, n) ==
  /\ its[i] # NoIt
  /\ LET r == plus(fs, its[i], n)
     IN  /\ fs' = r.fs
         /\ its' = IF r.exc = "none" THEN [its EXCEPT ![j] = r.it] ELSE its
         /\ last' = Record("plus", its[i].T, its[i].curr, <<n>>, <<>>, r.exc, j)
  /\ UNCHANGED <<host_little, opposite_endian, closed, alive, loop>>

\* the calls of a program that puts two values and swaps them through the
\* proxies of two iterators
SwapCall ==
  \/ \E T \in {"u16", "f32"} : \E vals \in SwapRuns(T) : Fill(T, vals)
  \/ \E T \in {"u16", "f32"} : Begin(1, T)
  \/ Plus(1, 2, 1)
  \/ \E i \in Slots : Deref(i)
  \/ \E i \in Slots : \E j \in Slots : Swap(i, j)

\* b.write<unsigned char>(v, i) for the next byte i of a file that is then
\* walked with iterators over a wider type
LoopPutByte(v) ==
  /\ loop.pc = "put"
  /\ loop.T = "-"
  /\ LET p == Len(loop.vec)
         r == write_at(fs, "u8", v, p)
     IN  /\ InBounds(r.fs)
         /\ LoopCall("write_at", "u8", p, <<v>>, r, its,
                     [loop EXCEPT !.vec = Append(@, v),
                                  !.pc = Goto(r.exc, "put")])

\* the element types of the walk and the values it puts
LoopTypes == {"u8", "u16", "f32"}

LoopValues(T) == CASE T = "u8"  -> {7, 200}
                   [] T = "u16" -> {258, 10}
                   [] T = "f32" -> {OneFloat}

\* the statements of
\*   for (i = 0; i != n; ++i) b.write<T>(v[i], Bin::bytes<T>(i));
\*   auto e = b.end<T>();
\*   for (auto it = b.begin<T>(); it != e; ++it) out.push_back(*it);
WalkCall ==
  \/ \E T \in LoopTypes : \E v \in LoopValues(T) : LoopPut(T, v)
  \/ \E T \in LoopTypes : LoopEnd(T)
  \/ LoopBegin
  \/ LoopTest
  \/ LoopRead
  \/ LoopStep

\* the runs of values a program puts with one call of write_many
BulkRuns(T) == CASE T = "u16" -> {<<10, 258>>}
                 [] T = "i32" -> {<<xAABBCCDD>>}

\* the calls of a program that puts runs of values and gets them back
BulkCall ==
  \/ \E T \in IntegralTypes : \E vals \in BulkRuns(T) : \E p \in Offsets :
       WriteManyAt(T, vals, p)
  \/ \E T \in IntegralTypes : \E n \in {1, 2} : \E p \in Offsets :
       \E g \in Junk(bytes(T, n)) : GetValuesAt(T, n, p, g)

\* T v = tb for the TypeBin tb of its[i]
ProxyRead(i) ==
  /\ alive
  /\ its[i] # NoIt
  /\ \E junk \in Junk(SizeOf(its[i].T)) :
       LET r == tb_read(fs, its[i], junk)
       IN  /\ fs' = r.fs
           /\ last' = Record("tb_read", its[i].T, its[i].tb, <<>>, r.ret,
                             r.exc, i)
  /\ UNCHANGED <<host_little, opposite_endian, closed, alive, its, loop>>

\* the calls of a program that advances iterators behind the end of the
\* file and reads through them, while it seeks, puts and gets at offsets that
\* are not negative
AdvanceCall ==
  \/ \E p \in 0..MaxOff : WJumpTo(p)
  \/ \E T \in StoreTypes : \E v \in Values(T) : \E p \in 0..MaxOff :
       WriteAt(T, v, p)
  \/ \E T \in StoreTypes : \E g \in Junk(SizeOf(T)) : GetValue(T, g)
  \/ \E T \in StoreTypes : Begin(1, T)
  \/ Increment(1)
  \/ \E n \in {1, 2} : Plus(1, 2, n)
  \/ \E i \in Slots : Deref(i)
  \/ \E i \in Slots : ProxyRead(i)

\* the calls of a program that seeks, gets and puts at offsets that are not
\* negative, and asks for the size
SizeCall ==
  \/ Size
  \/ \E p \in 0..MaxOff : RJumpTo(p)
  \/ \E p \in 0..MaxOff : WJumpTo(p)
  \/ \E T \in StoreTypes : \E v \in Values(T) : Write(T, v)
  \/ \E T \in StoreTypes : \E v \in Values(T) : \E p \in 0..MaxOff :
       WriteAt(T, v, p)
  \/ \E T \in ReadTypes : \E g \in Junk(SizeOf(T)) : GetValue(T, g)
  \/ \E T \in ReadTypes : \E p \in 0..MaxOff : \E g \in Junk(SizeOf(T)) :
       GetValueAt(T, p, g)

\* the statements of
\*   for (i = 0; i != n; ++i) b.write<unsigned char>(v[i], i);
\*   auto e = b.end<T>();
\*   for (auto it = b.begin<T>(); it != e; ++it) out.push_back(*it);
\* for a T of more than one byte
RaggedCall ==
  \/ \E v \in LoopValues("u8") : LoopPutByte(v)
  \/ \E T \in IntegralTypes : LoopEnd(T)
  \/ LoopBegin
  \/ LoopTest
  \/ LoopRead
  \/ LoopStep

Next == StoreCall

Spec == Init /\ [][Next]_vars

SpecCodec == Init /\ [][CodecCall]_vars

SpecIter == Init /\ [][IterCall]_vars

SpecCursor == Init /\ [][CursorCall]_vars

SpecPair == Init /\ [][PairCall]_vars

SpecEqual == Init /\ [][EqualCall]_vars

SpecBulk == Init /\ [][BulkCall]_vars

SpecSwap == Init /\ [][SwapCall]_vars

SpecSize == Init /\ [][SizeCall]_vars

SpecAdvance == Init /\ [][AdvanceCall]_vars

SpecWalk == InitTruncated /\ [][WalkCall]_vars

SpecRagged == InitTruncated /\ [][RaggedCall]_vars

(***************************************************************************)
(* The claims.                                                             *)
(***************************************************************************)
\* the bytes of the file at [off, off + n)
BytesAt(s, off, n) == SubSeq(s.data, off + 1, off + n)

\* the last call was op and returned
Returned(op) == last.op = op /\ last.exc = "none"

\* C1: round trip.  For an integral T and an offset within bounds (it is not
\* negative and [offset, offset + sizeof(T)) lies within size() after the
\* put), under every pair of host and configured byte order,
\* get_value<T>(offset) called after write<T>(v, offset) returns v.
C1_RoundTrip ==
  [][(/\ Returned("write_at")
      /\ last.T \in IntegralTypes
      /\ last.off >= 0
      /\ last.off + SizeOf(last.T) <= size(fs).ret[1]
      /\ last'.op = "get_value_at"
      /\ last'.T = last.T
      /\ last'.off = last.off)
     => (last'.exc = "none" /\ last'.ret = last.val)]_vars

\* a get under the opposite byte order returned the 4-byte value that was put
C1_Witness ==
  /\ Returned("get_value_at")
  /\ opposite_endian
  /\ last.T = "i32"
  /\ last.ret = <<xAABBCCDD>>

\* C2: byte order.  Once write<T>(0xAABBCCDD, offset) of a 4-byte integer has
\* written, the file holds DD CC BB AA at the offset if little-endian was
\* configured and AA BB CC DD if big-endian was, on either kind of machine.
C2_ByteOrder ==
  (/\ Returned("write_at")
   /\ last.T = "i32"
   /\ last.val = <<xAABBCCDD>>
   /\ last.off >= 0
   /\ ~fs.failed)
  => BytesAt(fs, last.off, 4) = IF use_little_endian
                                THEN <<221, 204, 187, 170>>
                                ELSE <<170, 187, 204, 221>>

\* little-endian configured on a big-endian machine, and DD CC BB AA written
\* behind a gap
C2_Witness ==
  /\ Returned("write_at")
  /\ last.T = "i32"
  /\ last.off = 1
  /\ use_little_endian /\ ~host_little
  /\ fs.data = <<0, 221, 204, 187, 170>>

\* C3: floating-point exemption.  Once write<T>(v, offset) of a float has
\* written, the file holds v's bytes in the machine's layout at the offset,
\* whichever byte order is configured.
C3_FloatNative ==
  (/\ Returned("write_at")
   /\ last.T = "f32"
   /\ last.off >= 0
   /\ ~fs.failed)
  => BytesAt(fs, last.off, 4) = ObjectBytes("f32", last.val[1])

\* the member functions of Bin the model calls, close() aside
StoreOps == {"size", "wpos", "rpos", "rjump_to", "wjump_to", "wmove_by",
             "rmove_by", "write", "write_at", "write_many", "write_many_at",
             "get_value", "get_value_at", "get_values", "get_values_at",
             "write_string", "write_string_at", "get_string", "get_string_at",
             "flush"}

\* C4: after close() every operation of the store fails with the error for a
\* closed file.
C4_ClosedFails ==
  (closed /\ last.op \in StoreOps) => last.exc = "closed"

ReadKind == {"rjump_to", "rmove_by", "get_value", "get_value_at",
             "get_values", "get_values_at", "get_string", "get_string_at"}

WriteKind == {"wjump_to", "wmove_by", "write", "write_at", "write_many",
              "write_many_at", "write_string", "write_string_at"}

\* C5: the cursors are independent.  On an open store whose stream works
\* before and after the call, a read-kind operation leaves wpos() as it was
\* and a write-kind operation leaves rpos() as it was.
C5_Independent ==
  [][(~closed /\ ~fs.failed /\ ~fs'.failed)
     => (/\ last'.op \in ReadKind => wpos(fs').ret = wpos(fs).ret
         /\ last'.op \in WriteKind => rpos(fs').ret = rpos(fs).ret)]_vars

\* C6: bounds failure.  On an open store, get_value<T>(offset) with
\* offset + sizeof(T) > size() throws one of the two past-EOF errors and
\* returns nothing.
C6_Bounds ==
  [][(/\ last'.op = "get_value_at"
      /\ ~closed
      /\ last'.off + SizeOf(last'.T) > size(fs).ret[1])
     => (last'.exc \in {"jump_eof", "read_eof"} /\ last'.ret = <<>>)]_vars

\* a read that starts inside the file and would end behind it was refused
C6_Witness ==
  /\ last.op = "get_value_at"
  /\ last.exc = "read_eof"
  /\ ~fs.failed
  /\ last.off >= 0
  /\ last.off < Len(fs.data)
  /\ last.off + SizeOf(last.T) > Len(fs.data)

\* C7: on an open store, get_value<T>() throws whenever fewer than sizeof(T)
\* bytes lie between rpos() and size(), wherever rjump_to, rmove_by, get and
\* put calls have left the cursor.
C7_CursorBounds ==
  [][(/\ last'.op = "get_value"
      /\ ~closed
      /\ size(fs).ret[1] - rpos(fs).ret[1] < SizeOf(last'.T))
     => last'.exc # "none"]_vars

\* the Codec of the specification: the machine's bytes, reversed if the
\* configured order is the other one and T is no floating-point type
encode(T, val) ==
  IF opposite_endian /\ ~is_floating_point(T)
  THEN Reverse(ObjectBytes(T, val)) ELSE ObjectBytes(T, val)

\* C8: extension.  write<T>(v, offset) on a working stream with
\* offset + sizeof(T) > size() leaves a file of exactly offset + sizeof(T)
\* bytes that holds the encoding of v at the offset.
C8_Extension ==
  [][(/\ last'.op = "write_at"
      /\ last'.exc = "none"
      /\ last'.off >= 0
      /\ ~fs.failed
      /\ last'.off + SizeOf(last'.T) > size(fs).ret[1])
     => (/\ size(fs').ret = <<last'.off + SizeOf(last'.T)>>
         /\ BytesAt(fs', last'.off, SizeOf(last'.T))
              = encode(last'.T, last'.val[1]))]_vars

\* C9: operator* on an iterator whose Bin is gone throws "Unbound Bin", on
\* one whose Bin is closed "The file was closed!"; it leaves the stream, the
\* file and the iterator's proxy as they were.
C9_DerefFails ==
  [][(last'.op = "deref" /\ (~alive \/ closed))
     => (/\ last'.exc = IF ~alive THEN "unbound" ELSE "was_closed"
         /\ fs' = fs
         /\ its' = its)]_vars

\* operator* has thrown on an iterator behind offset 0 whose Bin is gone
C9_Witness ==
  /\ last.op = "deref"
  /\ last.exc = "unbound"
  /\ ~alive
  /\ last.off > 0

\* C10: operator++ and operator-- throw, and leave the offset, on an iterator
\* whose Bin is gone or closed; on a live open Bin a step that returns has
\* moved the offset by sizeof(T), forward or backward.
C10_StepsValidate ==
  [][/\ (last'.op \in {"increment", "decrement"} /\ (~alive \/ closed))
          => (last'.exc # "none" /\ its' = its)
     /\ (last'.op = "increment" /\ last'.exc = "none")
          => its'[last'.it].curr = its[last'.it].curr + SizeOf(last'.T)
     /\ (last'.op = "decrement" /\ last'.exc = "none")
          => its'[last'.it].curr = its[last'.it].curr - SizeOf(last'.T)]_vars

\* C11: iterator distance law.  For two iterators of one element type T at
\* offsets that are multiples of sizeof(T), in either order, a - b is the
\* signed quotient (a.offset - b.offset) / sizeof(T).
C11_Distance ==
  (/\ last.op = "minus"
   /\ last.off % SizeOf(last.T) = 0
   /\ last.val[1] % SizeOf(last.T) = 0)
  => last.ret[1] = Int64((last.off - last.val[1]) \div SizeOf(last.T))

\* C12: iterator equality.  a == b throws when the Bin of either iterator is
\* gone or closed; otherwise it returns, and returns true exactly when the
\* two iterators are of the same Bin and at the same offset.
C12_Equality ==
  last.op = "equals"
  => IF ~alive \/ closed THEN last.exc # "none"
     ELSE last.exc = "none" /\ last.ret = <<last.off = last.val[1]>>

\* C13: decrementing below offset 0 fails.  operator-- on an iterator whose
\* offset is smaller than sizeof(T) throws std::out_of_range and leaves the
\* iterator as it was; begin<T>() starts at offset 0, and a ++ or -- step
\* taken at an offset that is not negative leaves one that is not negative.
C13_DecrementFloor ==
  [][/\ (last'.op = "decrement" /\ its[last'.it].curr < SizeOf(last'.T))
          => (last'.exc = "out_of_range" /\ its' = its)
     /\ (last'.op \in {"increment", "decrement"} /\ its[last'.it].curr >= 0)
          => its'[last'.it].curr >= 0
     /\ last'.op = "begin" => its'[last'.it].curr = 0]_vars

\* operator-- has thrown at offset 1, one byte behind the begin of the file
C13_Witness ==
  /\ last.op = "decrement"
  /\ last.exc = "out_of_range"
  /\ last.off = 1
  /\ its[last.it].curr = 1

\* C14: a file made of n elements put by write<T>(v_i, i * sizeof(T)) is
\* walked from begin<T>() to end<T>() without an exception; the values read
\* through the dereferenced iterator are v_0, v_1, ... in order; the iterator
\* never passes e, so that it != e ends the walk; and the walk has then read
\* exactly the n values put.
C14_Walk ==
  /\ loop.pc # "threw"
  /\ Len(loop.out) <= Len(loop.vec)
  /\ \A k \in 1..Len(loop.out) : loop.out[k] = loop.vec[k]
  /\ loop.pc \in {"test", "read", "step"}
       => (/\ its[1].curr <= its[2].curr
           /\ its[2].curr = bytes(loop.T, Len(loop.vec)))
  /\ loop.pc = "done" => loop.out = loop.vec

\* C15: an end iterator is a snapshot.  end<T>() makes an iterator whose
\* offset is what size() returns at that moment, and a put, whether it grows
\* the file or not, leaves every iterator made before it as it was.
C15_EndSnapshot ==
  [][/\ (last'.op = "end" /\ last'.exc = "none")
          => its'[last'.it].curr = size(fs).ret[1]
     /\ last'.op = "write_at" => its' = its]_vars

\* a put has grown the file to 2 bytes behind an end iterator made when it
\* had 1 byte (an iterator over uint16_t is at an odd offset only if end
\* made it there)
C15_Witness ==
  /\ Returned("write_at")
  /\ ~fs.failed
  /\ Len(fs.data) = 2
  /\ \E i \in Slots : its[i].T = "u16" /\ its[i].curr = 1

\* C16: bulk round trip.  For an integral T, a run of n values and an offset
\* that is not negative, under every pair of host and configured byte order,
\* get_values<T>(n, offset) called after write_many<T>(run, offset) has
\* written returns the run, element for element.
C16_BulkRoundTrip ==
  [][(/\ Returned("write_many_at")
      /\ last.T \in IntegralTypes
      /\ last.off >= 0
      /\ last.off + bytes(last.T, Len(last.val)) <= size(fs).ret[1]
      /\ last'.op = "get_values_at"
      /\ last'.T = last.T
      /\ last'.off = last.off
      /\ last'.val = <<Len(last.val)>>)
     => (last'.exc = "none" /\ last'.ret = last.val)]_vars

\* two different values came back in the order put, from offset 1 of a file
\* in the byte order that is not the machine's
C16_Witness ==
  /\ Returned("get_values_at")
  /\ opposite_endian
  /\ last.T = "u16"
  /\ last.off = 1
  /\ last.ret = <<10, 258>>
  /\ Len(fs.data) = 5

\* C17: swap of two proxies.  Once swap(a, b) has returned for proxies of T
\* at offsets that do not overlap, the bytes at a are those that were at b,
\* the bytes at b are those that were at a, and every other byte and the
\* length of the file are as before.
C17_Swap ==
  [][(/\ last'.op = "swap"
      /\ last'.exc = "none"
      /\ \/ last'.off + SizeOf(last'.T) <= last'.val[1]
         \/ last'.val[1] + SizeOf(last'.T) <= last'.off)
     => LET a == last'.off
            b == last'.val[1]
            n == SizeOf(last'.T)
        IN  /\ BytesAt(fs', a, n) = BytesAt(fs, b, n)
            /\ BytesAt(fs', b, n) = BytesAt(fs, a, n)
            /\ Len(fs'.data) = Len(fs.data)
            /\ \A k \in 1..Len(fs.data) :
                 (k \notin (a + 1)..(a + n) /\ k \notin (b + 1)..(b + n))
                 => fs'.data[k] = fs.data[k]]_vars

\* C18: rjump_to(offset), for an offset that is not negative, returns with
\* rpos() at the offset when the Bin is open and offset <= size(); it throws
\* and leaves rpos() as it was when the Bin is closed or offset > size().
C18_SeekRead ==
  [][(last'.op = "rjump_to" /\ last'.off >= 0)
     => IF ~closed /\ last'.off <= size(fs).ret[1]
        THEN last'.exc = "none" /\ rpos(fs').ret = <<last'.off>>
        ELSE /\ last'.exc = IF closed THEN "closed" ELSE "jump_eof"
             /\ rpos(fs').ret = rpos(fs).ret]_vars

\* rjump_to to one byte behind the end of an open file has thrown and the
\* position is where it was, at the end
C18_Witness ==
  /\ last.op = "rjump_to"
  /\ last.exc = "jump_eof"
  /\ ~closed /\ ~fs.failed
  /\ last.off = Len(fs.data) + 1
  /\ rpos(fs).ret = <<Len(fs.data)>>

\* C19: size() never corrupts the cursors.  Called on an open Bin after any
\* sequence of seeks, gets and puts, size() returns the length of the file
\* in bytes and leaves rpos(), wpos() and the bytes of the file as they were.
C19_SizeFrame ==
  [][(last'.op = "size" /\ ~closed)
     => (/\ last'.exc = "none"
         /\ last'.ret = <<Len(fs.data)>>
         /\ rpos(fs').ret = rpos(fs).ret
         /\ wpos(fs').ret = wpos(fs).ret
         /\ fs'.data = fs.data)]_vars

\* C20: no partial application on a failed read.  On an open Bin, a
\* get_value<T>(offset) that throws, for an offset behind the end or one
\* with fewer than sizeof(T) bytes behind it, leaves the bytes of the file,
\* size(), rpos() and wpos() as they were before the call.
C20_NoPartialRead ==
  [][(/\ last'.op = "get_value_at"
      /\ last'.exc # "none"
      /\ last'.off >= 0
      /\ ~closed)
     => (/\ fs'.data = fs.data
         /\ size(fs').ret = size(fs).ret
         /\ rpos(fs').ret = rpos(fs).ret
         /\ wpos(fs').ret = wpos(fs).ret)]_vars

\* C21: closed is terminal.  No call makes a closed Bin open again, and
\* close() on a closed Bin returns without an exception and changes no
\* state: closed, the stream with its file, position and state bits, and
\* every iterator are as they were.
C21_ClosedTerminal ==
  [][closed => (/\ closed'
                /\ ~fs'.open
                /\ last'.op = "close"
                     => (/\ last'.exc = "none"
                         /\ closed' = closed
                         /\ fs' = fs
                         /\ its' = its))]_vars

\* C22: on a Bin that exists and is open, operator++ and operator+ return
\* whatever the offset of the iterator is, also behind size(); a read through
\* the proxy at an offset with fewer than sizeof(T) bytes behind it throws.
C22_AdvanceFree ==
  [][/\ (last'.op \in {"increment", "plus"} /\ alive /\ ~closed)
          => last'.exc = "none"
     /\ (/\ last'.op = "tb_read"
         /\ alive /\ ~closed
         /\ last'.off + SizeOf(last'.T) > size(fs).ret[1])
          => last'.exc # "none"]_vars

\* C23: operator* has a side effect on the Bin.  An operator* that returns,
\* which it does only on a Bin that exists and is open, leaves wpos() at the
\* offset of the iterator, and the bytes of the file and size() as they
\* were, whether or not anything is read or assigned through the proxy.
C23_DerefSeeks ==
  [][(last'.op = "deref" /\ last'.exc = "none")
     => (/\ alive /\ ~closed
         /\ wpos(fs').ret = <<its[last'.it].curr>>
         /\ fs'.data = fs.data
         /\ size(fs').ret = size(fs).ret)]_vars

\* operator* has moved the position from the end of a 3-byte file back to
\* the offset 2 of the iterator
C23_Witness ==
  /\ Returned("deref")
  /\ last.off = 2
  /\ Len(fs.data) = 3
  /\ wpos(fs).ret = <<2>>

\* C24: a walk over a file whose size is no multiple of sizeof(T).  The
\* iterator stepped from begin<T>() stays before end<T>() and never equals
\* it, so the walk does not end by it != e; it stops in the read at the first
\* offset with fewer than sizeof(T) bytes behind it, with "Trying to read
\* past EOF!", after the reads before that offset.
C24_RaggedWalk ==
  LET sz == Len(loop.vec)
      n  == SizeOf(loop.T)
  IN  (loop.pc \in {"test", "read", "step", "threw", "done"} /\ sz % n # 0)
      => (/\ loop.pc # "done"
          /\ its[2].curr = sz
          /\ loop.pc # "threw"
               => (/\ its[1].curr < its[2].curr
                   /\ its[1].curr = bytes(loop.T, Len(loop.out))
                        + (IF loop.pc = "step" THEN 0 - n ELSE 0))
          /\ loop.pc = "threw"
               => (/\ last.op = "read"
                   /\ last.exc = "read_eof"
                   /\ last.off = (sz \div n) * n
                   /\ Len(loop.out) = sz \div n))

\* a walk with uint16_t over 3 bytes has read one value and stopped in the
\* read at offset 2
C24_Witness ==
  /\ loop.pc = "threw"
  /\ loop.T = "u16"
  /\ Len(loop.vec) = 3
  /\ Len(loop.out) = 1
  /\ last.op = "read"
  /\ last.off = 2

\* C25: the file never shrinks.  From one call on an open Bin to the next,
\* what size() returns does not decrease, and it changes only by a write or
\* write_many, which makes it greater.
C25_NeverShrinks ==
  [][(~closed /\ ~closed')
     => LET before == size(fs).ret[1]
            after  == size(fs').ret[1]
        IN  /\ after >= before
            /\ after # before
                 => last'.op \in {"write", "write_at", "write_many",
                                  "write_many_at"}]_vars

====
